---- MODULE Spec2Model ----
(***************************************************************************)
(* DataMate data-analyst assistant: the request handler of app.py          *)
(* (handle_analysis_request) and the agent of agent.py                     *)
(* (DataAnalystAgent.run, execute_python_code).                            *)
(*                                                                         *)
(* Worker threads of one process handle requests.  They share the          *)
(* filesystem (fs, the set of existing absolute paths) and the             *)
(* process-wide current directory (cwd).  Every system call of the handler *)
(* that reads or writes shared state is one atomic step.                   *)
(*                                                                         *)
(* Texts are sequences of tokens.  Captured output uses the tokens         *)
(*   " " "\n" (whitespace)  "1" (a digit)  "[" "]"  "x" (any other text);  *)
(* a model response uses "FENCE" (three backticks), "python" (the tag),   *)
(* "\n" (whitespace), "a" "b" (any other text).                            *)
(***************************************************************************)
EXTENDS Naturals, Sequences, FiniteSets

\* ---------------------------------------------------------------- bounds
\* longest captured standard output, in tokens
MaxOut == 3
\* longest model response, in tokens
MaxText == 6
\* requests received in one behaviour
MaxRequests == 2
\* worker threads of the process
NThreads == 2

VARIABLES
    GOOGLE_API_KEY,   \* app.py:16   TRUE when the credential is configured
    fs,               \* the filesystem: the set of existing absolute paths
    cwd,              \* the process-wide current directory (absolute path)
    nextId,           \* number of the next fresh uuid4
    threads,          \* the worker threads that accept requests
    pc,               \* each thread's position in the handler
    has_q,            \* 'questions.txt' in request.files
    request_id,       \* app.py:34
    created,          \* the absolute directory os.makedirs(temp_dir) created
    original_dir,     \* agent.py:59
    response_text,    \* agent.py:99  response.text
    code_to_execute,  \* agent.py:102/104
    script,           \* what the generated script does when executed
    result,           \* agent.py:108  {"stdout", "stderr"}
    ret,              \* the value Agent.run returned
    returned,         \* TRUE when Agent.run returned normally
    exc,              \* the exception in flight
    response          \* what the handler answered

vars == <<GOOGLE_API_KEY, fs, cwd, nextId, threads, pc, has_q, request_id,
          created, original_dir, response_text, code_to_execute, script,
          result, ret, returned, exc, response>>

Threads == 1..NThreads

\* ------------------------------------------------------------ text helpers
IsWs(c) == c \in {" ", "\n"}

RECURSIVE lstrip(_)
lstrip(s) == IF s # <<>> /\ IsWs(Head(s)) THEN lstrip(Tail(s)) ELSE s

RECURSIVE rstrip(_)
rstrip(s) ==
    IF s # <<>> /\ IsWs(s[Len(s)]) THEN rstrip(SubSeq(s, 1, Len(s) - 1)) ELSE s

\* a strip that trims the left end only
strip_left_only(s) == lstrip(s)

\* str.strip()
strip(s) == rstrip(lstrip(s))

\* "Traceback" in text
HasTraceback(text) == \E i \in 1..Len(text) : text[i] = "Traceback"

\* all token sequences over alphabet A of length at most n
SeqsUpTo(A, n) == UNION {[1..k -> A] : k \in 0..n}

\* ------------------------------------------------------------- json.loads
\* index of the first non-whitespace token of s at or after i
RECURSIVE SkipWs(_, _)
SkipWs(s, i) == IF i <= Len(s) /\ IsWs(s[i]) THEN SkipWs(s, i + 1) ELSE i

\* index after the run of digits of s that starts at i
RECURSIVE SkipDigits(_, _)
SkipDigits(s, i) == IF i <= Len(s) /\ s[i] = "1" THEN SkipDigits(s, i + 1) ELSE i

JsonFail == [ok |-> FALSE, next |-> 0, val |-> <<>>]

\* one JSON value of s starting at i: a number (a run of digits) or an
\* array of at most one element.  val is the value, written without
\* whitespace.
RECURSIVE ParseValue(_, _)
ParseValue(s, i) ==
    IF i > Len(s) THEN JsonFail
    ELSE IF s[i] = "1" THEN
        [ok |-> TRUE, next |-> SkipDigits(s, i),
         val |-> SubSeq(s, i, SkipDigits(s, i) - 1)]
    ELSE IF s[i] = "[" THEN
        LET k == SkipWs(s, i + 1) IN
        IF k <= Len(s) /\ s[k] = "]" THEN
            [ok |-> TRUE, next |-> k + 1, val |-> <<"[", "]">>]
        ELSE
            LET r == ParseValue(s, k) IN
            IF ~r.ok THEN JsonFail
            ELSE LET m == SkipWs(s, r.next) IN
                 IF m <= Len(s) /\ s[m] = "]" THEN
                     [ok |-> TRUE, next |-> m + 1,
                      val |-> <<"[">> \o r.val \o <<"]">>]
                 ELSE JsonFail
    ELSE JsonFail

\* json.loads(s): whitespace, one value, whitespace, end of text
json_loads(s) ==
    LET r == ParseValue(s, SkipWs(s, 1)) IN
    IF r.ok /\ SkipWs(s, r.next) > Len(s)
    THEN [ok |-> TRUE, val |-> r.val]
    ELSE [ok |-> FALSE, val |-> <<>>]

\* ------------------------------------------------------------- filesystem
\* the directory the server is started in, and its "temp" (app.py:18-19)
AppDir == <<"app">>
TempDir == AppDir \o <<"temp">>

\* os.path.join("temp", request_id)
temp_dir(id) == <<"temp", id>>

\* a relative path as the kernel resolves it: against the current directory
Resolve(dir, rel) == dir \o rel

IsPrefix(p, q) == Len(p) <= Len(q) /\ SubSeq(q, 1, Len(p)) = p

\* os.path.exists(rel): false too when the current directory is gone
path_exists(fsys, dir, rel) == dir \in fsys /\ Resolve(dir, rel) \in fsys

\* os.makedirs(abs): the directory and every missing parent
makedirs(fsys, abs) == fsys \cup {SubSeq(abs, 1, k) : k \in 1..Len(abs)}

\* a cleanup that empties the directory and leaves the directory itself
rmtree_contents_only(fsys, abs) == {p \in fsys : ~IsPrefix(abs, p) \/ p = abs}

\* shutil.rmtree(abs): the directory and everything under it
rmtree(fsys, abs) == {p \in fsys : ~IsPrefix(abs, p)}

\* str(uuid.uuid4()): the n-th identifier drawn, each one fresh
UUIDs == <<"u1", "u2", "u3", "u4", "u5", "u6">>
uuid4(n) == UUIDs[n]

\* -------------------------------------------------------------- exceptions
NoExc == [kind |-> "none", msg |-> "", text |-> <<>>]
Raise(kind, msg, text) == [kind |-> kind, msg |-> msg, text |-> text]

\* google_exceptions.RetryError, google_exceptions.DeadlineExceeded
TimeoutKinds == {"RetryError", "DeadlineExceeded"}

\* subclasses of BaseException that are not subclasses of Exception
BaseOnlyKinds == {"SystemExit", "KeyboardInterrupt"}

\* what an except-Exception clause catches
IsException(kind) == kind # "none" /\ kind \notin BaseOnlyKinds

\* --------------------------------------------------------------- responses
NoResponse == [status |-> 0, keys |-> {}, body |-> <<>>, details |-> NoExc]

\* jsonify({...}), status
ErrorResponse(status, keys, e) ==
    [status |-> status, keys |-> keys, body |-> <<>>, details |-> e]

\* an exception that leaves the view function: Flask's own 500 page
FlaskError == [status |-> 500, keys |-> {}, body |-> <<>>, details |-> NoExc]

\* an entry check without the check for the question file
EntryCheck_key_only(key, q) ==
    IF ~key THEN ErrorResponse(500, {"error"}, NoExc) ELSE NoResponse

\* app.py:28-32: 0 when the request passes both checks
EntryCheck(key, q) ==
    IF ~key THEN ErrorResponse(500, {"error"}, NoExc)
    ELSE IF ~q THEN ErrorResponse(400, {"error"}, NoExc)
    ELSE NoResponse

\* app.py:53-69: the response of the try block and its except clauses.
\* status 0: the exception is no Exception, no clause catches it and it
\* leaves the handler after the finally block.
handler_response(normal, text, e) ==
    IF normal THEN
        IF json_loads(text).ok
        THEN [status |-> 200, keys |-> {}, body |-> json_loads(text).val,
              details |-> NoExc]
        ELSE ErrorResponse(500, {"error", "details"},
                           Raise("JSONDecodeError", "", <<>>))
    ELSE IF e.kind \in TimeoutKinds THEN ErrorResponse(503, {"error", "details"}, e)
    ELSE IF IsException(e.kind) THEN ErrorResponse(500, {"error", "details"}, e)
    ELSE NoResponse

\* -------------------------------------------------------- code extraction
Fences(text) == {i \in 1..Len(text) : text[i] = "FENCE"}

Max(S) == CHOOSE x \in S : \A y \in S : y <= x
Min(S) == CHOOSE x \in S : \A y \in S : x <= y

\* number of whitespace tokens of text from index i on
WsRun(text, i) == SkipWs(text, i) - i

\* re.search of the fence pattern (agent.py:100) in text: the leftmost match;
\* group 1 takes the tag and as much whitespace as leaves group 2 a token;
\* group 2 is greedy and runs to the last fence of the text.
re_search(text) ==
    LET F == Fences(text) IN
    IF F = {} \/ Max(F) < Min(F) + 2 THEN [matched |-> FALSE, group2 |-> <<>>]
    ELSE
        LET f == Min(F)
            l == Max(F)
            tagged == text[f + 1] = "python" /\ l >= f + 3
            w == WsRun(text, f + 2)
            k == IF w <= l - f - 3 THEN w ELSE l - f - 3
            s == IF tagged THEN f + 2 + k ELSE f + 1
        IN [matched |-> TRUE, group2 |-> SubSeq(text, s, l - 1)]

\* agent.py:99-104
extract_code(text) ==
    IF re_search(text).matched THEN strip(re_search(text).group2) ELSE strip(text)

\* -------------------------------------------------------- script execution
\* A generated script, by what it does when executed: what it prints, what
\* it writes to stderr, what it raises ("none": it runs to its end) and
\* whether it changes the current directory.
ScriptRaises == {"none", "ValueError", "SystemExit"}

\* agent.py:13-40.  returned: the function returned its result; otherwise
\* the exception raised left it (after the finally block restored the streams).
execute_python_code(s) ==
    IF s.raises = "none" THEN
        [returned |-> TRUE, raised |-> "none",
         result |-> [stdout |-> s.out, stderr |-> s.err]]
    ELSE IF IsException(s.raises) THEN
        [returned |-> TRUE, raised |-> "none",
         result |-> [stdout |-> s.out, stderr |-> s.err \o <<"Traceback">>]]
    ELSE
        [returned |-> FALSE, raised |-> s.raises,
         result |-> [stdout |-> s.out, stderr |-> s.err]]

\* a validation that looks at the output first and at the trace last
validate_output_first(res) ==
    IF strip(res.stdout) # <<>> /\ json_loads(strip(res.stdout)).ok THEN
        [ok |-> TRUE, out |-> strip(res.stdout), exc |-> NoExc]
    ELSE IF HasTraceback(res.stderr) THEN
        [ok |-> FALSE, out |-> <<>>,
         exc |-> Raise("Exception", "Error during Python script execution", res.stderr)]
    ELSE
        [ok |-> FALSE, out |-> <<>>, exc |-> Raise("ValueError", "", res.stderr)]

\* the text after the last line break of s
RECURSIVE last_line(_)
last_line(s) ==
    IF \E i \in 1..Len(s) : s[i] = "\n" THEN last_line(Tail(s)) ELSE s

\* a validation that parses the last printed line only
validate_last_line(res) ==
    IF HasTraceback(res.stderr) THEN
        [ok |-> FALSE, out |-> <<>>,
         exc |-> Raise("Exception", "Error during Python script execution", res.stderr)]
    ELSE IF strip(res.stdout) = <<>> THEN
        [ok |-> FALSE, out |-> <<>>, exc |-> Raise("ValueError", "", res.stderr)]
    ELSE IF ~json_loads(last_line(strip(res.stdout))).ok THEN
        [ok |-> FALSE, out |-> <<>>, exc |-> Raise("JSONDecodeError", "", <<>>)]
    ELSE [ok |-> TRUE, out |-> last_line(strip(res.stdout)), exc |-> NoExc]

\* agent.py:112-125: the checks on the execution result
validate(res) ==
    IF HasTraceback(res.stderr) THEN
        [ok |-> FALSE, out |-> <<>>,
         exc |-> Raise("Exception", "Error during Python script execution", res.stderr)]
    ELSE IF strip(res.stdout) = <<>> THEN
        [ok |-> FALSE, out |-> <<>>,
         exc |-> Raise("ValueError",
                       IF res.stderr # <<>>
                       THEN "The generated script did not print any output. Warnings"
                       ELSE "The generated script did not print any output.",
                       res.stderr)]
    ELSE IF ~json_loads(strip(res.stdout)).ok THEN
        [ok |-> FALSE, out |-> <<>>, exc |-> Raise("JSONDecodeError", "", <<>>)]
    ELSE [ok |-> TRUE, out |-> strip(res.stdout), exc |-> NoExc]

\* a finally block that does not change the directory back
finally_no_chdir(current, original) == current

\* agent.py:134-135: the directory the finally block changes to
finally_chdir(current, original) == original

\* ------------------------------------------------------------ input sets
StdoutTokens == {" ", "\n", "1", "[", "]", "x"}
TextTokens == {"FENCE", "python", "\n", "a", "b"}

\* One thread handling requests: every captured output up to MaxOut tokens
\* and every stderr.  Several threads: one output and an empty stderr, which
\* keeps the interleavings checkable.
Stdouts ==
    IF Cardinality(threads) = 1 THEN SeqsUpTo(StdoutTokens, MaxOut) ELSE {<<"1">>}

Stderrs ==
    IF Cardinality(threads) = 1 THEN {<<>>, <<"Warning">>, <<"Traceback">>} ELSE {<<>>}

Scripts ==
    [out : Stdouts, err : Stderrs, raises : ScriptRaises, chdir : BOOLEAN]

NoScript == [out |-> <<>>, err |-> <<>>, raises |-> "none", chdir |-> FALSE]
NoResult == [stdout |-> <<>>, stderr |-> <<>>]

\* responses of the generation service in the request flow
SampleTexts ==
    IF Cardinality(threads) = 1
    THEN {<<"FENCE", "python", "\n", "a", "FENCE">>, <<"a">>}
    ELSE {<<"a">>}

\* outcomes of model.generate_content (agent.py:91-97)
GenOutcomes ==
    {"ok", "DeadlineExceeded", "RetryError", "ServiceUnavailable", "no_candidates"}

generate_exc(outcome) ==
    IF outcome = "no_candidates"
    THEN Raise("ValueError", "API call failed: The request was likely blocked.", <<>>)
    ELSE Raise(outcome, "", <<>>)

\* ------------------------------------------------------------------- Init
InitGlobals ==
    /\ GOOGLE_API_KEY \in BOOLEAN
    /\ fs = {AppDir, TempDir}
    /\ cwd = AppDir
    /\ nextId = 1

InitLocals ==
    /\ pc = [t \in Threads |-> "idle"]
    /\ has_q = [t \in Threads |-> FALSE]
    /\ request_id = [t \in Threads |-> ""]
    /\ created = [t \in Threads |-> <<>>]
    /\ original_dir = [t \in Threads |-> <<>>]
    /\ response_text = [t \in Threads |-> <<>>]
    /\ code_to_execute = [t \in Threads |-> <<>>]
    /\ script = [t \in Threads |-> NoScript]
    /\ result = [t \in Threads |-> NoResult]
    /\ ret = [t \in Threads |-> <<>>]
    /\ returned = [t \in Threads |-> FALSE]
    /\ exc = [t \in Threads |-> NoExc]
    /\ response = [t \in Threads |-> NoResponse]

\* one worker: requests are handled one after the other
Init == InitGlobals /\ InitLocals /\ threads = {1}

\* every worker thread accepts requests: handlers interleave
InitConc == InitGlobals /\ InitLocals /\ threads = Threads

\* ---------------------------------------------------------------- actions
\* app.py:26-35: a request arrives at a free thread
ReceiveRequest(t) ==
    /\ t \in threads
    /\ pc[t] \in {"idle", "done"}
    /\ nextId <= MaxRequests
    /\ \E q \in BOOLEAN :
        /\ has_q' = [has_q EXCEPT ![t] = q]
        /\ response' = [response EXCEPT ![t] = EntryCheck(GOOGLE_API_KEY, q)]
        /\ IF EntryCheck(GOOGLE_API_KEY, q).status = 0
           THEN /\ request_id' = [request_id EXCEPT ![t] = uuid4(nextId)]
                /\ pc' = [pc EXCEPT ![t] = "makedirs"]
           ELSE /\ request_id' = [request_id EXCEPT ![t] = ""]
                /\ pc' = [pc EXCEPT ![t] = "done"]
    /\ nextId' = nextId + 1
    /\ created' = [created EXCEPT ![t] = <<>>]
    /\ original_dir' = [original_dir EXCEPT ![t] = <<>>]
    /\ response_text' = [response_text EXCEPT ![t] = <<>>]
    /\ code_to_execute' = [code_to_execute EXCEPT ![t] = <<>>]
    /\ script' = [script EXCEPT ![t] = NoScript]
    /\ result' = [result EXCEPT ![t] = NoResult]
    /\ ret' = [ret EXCEPT ![t] = <<>>]
    /\ returned' = [returned EXCEPT ![t] = FALSE]
    /\ exc' = [exc EXCEPT ![t] = NoExc]
    /\ UNCHANGED <<GOOGLE_API_KEY, fs, cwd, threads>>

\* app.py:36: os.makedirs(temp_dir), outside the try block
MakeDirs(t) ==
    /\ pc[t] = "makedirs"
    /\ LET abs == Resolve(cwd, temp_dir(request_id[t])) IN
       IF cwd \in fs /\ abs \notin fs
       THEN /\ fs' = makedirs(fs, abs)
            /\ created' = [created EXCEPT ![t] = abs]
            /\ pc' = [pc EXCEPT ![t] = "save"]
            /\ UNCHANGED response
       ELSE /\ response' = [response EXCEPT ![t] = FlaskError]
            /\ pc' = [pc EXCEPT ![t] = "done"]
            /\ UNCHANGED <<fs, created>>
    /\ UNCHANGED <<GOOGLE_API_KEY, cwd, nextId, threads, has_q, request_id,
                   original_dir, response_text, code_to_execute, script,
                   result, ret, returned, exc>>

\* app.py:40-46: every uploaded part is saved under temp_dir
SaveFiles(t) ==
    /\ pc[t] = "save"
    /\ \E fails \in BOOLEAN :
        IF ~fails /\ path_exists(fs, cwd, temp_dir(request_id[t]))
        THEN /\ fs' = fs \cup
                    IF has_q[t]
                    THEN {Resolve(cwd, temp_dir(request_id[t])) \o <<"questions.txt">>}
                    ELSE {}
             /\ pc' = [pc EXCEPT ![t] = "read"]
             /\ UNCHANGED exc
        ELSE /\ exc' = [exc EXCEPT ![t] = Raise("OSError", "", <<>>)]
             /\ pc' = [pc EXCEPT ![t] = "respond"]
             /\ UNCHANGED fs
    /\ UNCHANGED <<GOOGLE_API_KEY, cwd, nextId, threads, has_q, request_id,
                   created, original_dir, response_text, code_to_execute,
                   script, result, ret, returned, response>>

\* app.py:48-50: the question file is opened and read as UTF-8
ReadQuestion(t) ==
    /\ pc[t] = "read"
    /\ \E unreadable \in BOOLEAN :
        IF ~unreadable
           /\ path_exists(fs, cwd, temp_dir(request_id[t]) \o <<"questions.txt">>)
        THEN /\ pc' = [pc EXCEPT ![t] = "getcwd"]
             /\ UNCHANGED exc
        ELSE /\ exc' = [exc EXCEPT ![t] =
                    IF unreadable THEN Raise("UnicodeDecodeError", "", <<>>)
                    ELSE Raise("FileNotFoundError", "", <<>>)]
             /\ pc' = [pc EXCEPT ![t] = "respond"]
    /\ UNCHANGED <<GOOGLE_API_KEY, fs, cwd, nextId, threads, has_q, request_id,
                   created, original_dir, response_text, code_to_execute,
                   script, result, ret, returned, response>>

\* app.py:52-53, agent.py:59: original_dir = os.getcwd()
RunGetcwd(t) ==
    /\ pc[t] = "getcwd"
    /\ IF cwd \in fs
       THEN /\ original_dir' = [original_dir EXCEPT ![t] = cwd]
            /\ pc' = [pc EXCEPT ![t] = "chdir"]
            /\ UNCHANGED exc
       ELSE /\ exc' = [exc EXCEPT ![t] = Raise("FileNotFoundError", "", <<>>)]
            /\ pc' = [pc EXCEPT ![t] = "respond"]
            /\ UNCHANGED original_dir
    /\ UNCHANGED <<GOOGLE_API_KEY, fs, cwd, nextId, threads, has_q, request_id,
                   created, response_text, code_to_execute, script, result,
                   ret, returned, response>>

\* agent.py:60: os.chdir(self.work_dir), before the try block of run
RunChdir(t) ==
    /\ pc[t] = "chdir"
    /\ IF path_exists(fs, cwd, temp_dir(request_id[t]))
       THEN /\ cwd' = Resolve(cwd, temp_dir(request_id[t]))
            /\ pc' = [pc EXCEPT ![t] = "generate"]
            /\ UNCHANGED exc
       ELSE /\ exc' = [exc EXCEPT ![t] = Raise("FileNotFoundError", "", <<>>)]
            /\ pc' = [pc EXCEPT ![t] = "respond"]
            /\ UNCHANGED cwd
    /\ UNCHANGED <<GOOGLE_API_KEY, fs, nextId, threads, has_q, request_id,
                   created, original_dir, response_text, code_to_execute,
                   script, result, ret, returned, response>>

\* agent.py:89-99, 127-133: the generation call; its failures are re-raised
GenerateContent(t) ==
    /\ pc[t] = "generate"
    /\ \E outcome \in GenOutcomes, text \in SampleTexts :
        IF outcome = "ok"
        THEN /\ response_text' = [response_text EXCEPT ![t] = text]
             /\ pc' = [pc EXCEPT ![t] = "extract"]
             /\ UNCHANGED exc
        ELSE /\ exc' = [exc EXCEPT ![t] = generate_exc(outcome)]
             /\ pc' = [pc EXCEPT ![t] = "run_finally"]
             /\ UNCHANGED response_text
    /\ UNCHANGED <<GOOGLE_API_KEY, fs, cwd, nextId, threads, has_q, request_id,
                   created, original_dir, code_to_execute, script, result,
                   ret, returned, response>>

\* agent.py:99-106
ExtractCode(t) ==
    /\ pc[t] = "extract"
    /\ code_to_execute' = [code_to_execute EXCEPT ![t] = extract_code(response_text[t])]
    /\ pc' = [pc EXCEPT ![t] = "exec"]
    /\ UNCHANGED <<GOOGLE_API_KEY, fs, cwd, nextId, threads, has_q, request_id,
                   created, original_dir, response_text, script, result, ret,
                   returned, exc, response>>

\* agent.py:108, 13-40: the script runs; what it does is an input
ExecScript(t) ==
    /\ pc[t] = "exec"
    /\ \E s \in Scripts :
        /\ script' = [script EXCEPT ![t] = s]
        /\ cwd' = IF s.chdir THEN TempDir ELSE cwd
        /\ IF execute_python_code(s).returned
           THEN /\ result' = [result EXCEPT ![t] = execute_python_code(s).result]
                /\ pc' = [pc EXCEPT ![t] = "validate"]
                /\ UNCHANGED exc
           ELSE /\ exc' = [exc EXCEPT ![t] =
                       Raise(execute_python_code(s).raised, "", <<>>)]
                /\ pc' = [pc EXCEPT ![t] = "run_finally"]
                /\ UNCHANGED result
    /\ UNCHANGED <<GOOGLE_API_KEY, fs, nextId, threads, has_q, request_id,
                   created, original_dir, response_text, code_to_execute,
                   ret, returned, response>>

\* agent.py:112-133: the result is validated; a failure is re-raised
Validate(t) ==
    /\ pc[t] = "validate"
    /\ ret' = [ret EXCEPT ![t] = validate(result[t]).out]
    /\ exc' = [exc EXCEPT ![t] = validate(result[t]).exc]
    /\ pc' = [pc EXCEPT ![t] = "run_finally"]
    /\ UNCHANGED <<GOOGLE_API_KEY, fs, cwd, nextId, threads, has_q, request_id,
                   created, original_dir, response_text, code_to_execute,
                   script, result, returned, response>>

\* agent.py:134-135: os.chdir(original_dir) on every way out of the try
\* block; when it raises, its exception replaces the outcome
RunFinally(t) ==
    /\ pc[t] = "run_finally"
    /\ IF finally_chdir(cwd, original_dir[t]) \in fs
       THEN /\ cwd' = finally_chdir(cwd, original_dir[t])
            /\ returned' = [returned EXCEPT ![t] = exc[t].kind = "none"]
            /\ UNCHANGED <<exc, ret>>
       ELSE /\ exc' = [exc EXCEPT ![t] = Raise("FileNotFoundError", "", <<>>)]
            /\ ret' = [ret EXCEPT ![t] = <<>>]
            /\ UNCHANGED <<cwd, returned>>
    /\ pc' = [pc EXCEPT ![t] = "respond"]
    /\ UNCHANGED <<GOOGLE_API_KEY, fs, nextId, threads, has_q, request_id,
                   created, original_dir, response_text, code_to_execute,
                   script, result, response>>

\* app.py:54-69: the response, or the except clause that builds it
HandlerRespond(t) ==
    /\ pc[t] = "respond"
    /\ response' = [response EXCEPT ![t] = handler_response(returned[t], ret[t], exc[t])]
    /\ pc' = [pc EXCEPT ![t] = "exists"]
    /\ UNCHANGED <<GOOGLE_API_KEY, fs, cwd, nextId, threads, has_q, request_id,
                   created, original_dir, response_text, code_to_execute,
                   script, result, ret, returned, exc>>

\* app.py:71-72: finally: if os.path.exists(temp_dir)
CleanupExists(t) ==
    /\ pc[t] = "exists"
    /\ pc' = [pc EXCEPT ![t] =
            IF path_exists(fs, cwd, temp_dir(request_id[t])) THEN "rmtree" ELSE "done"]
    /\ UNCHANGED <<GOOGLE_API_KEY, fs, cwd, nextId, threads, has_q, request_id,
                   created, original_dir, response_text, code_to_execute,
                   script, result, ret, returned, exc, response>>

\* app.py:73-74: shutil.rmtree(temp_dir); when it raises, the exception
\* replaces the response
CleanupRmtree(t) ==
    /\ pc[t] = "rmtree"
    /\ IF path_exists(fs, cwd, temp_dir(request_id[t]))
       THEN /\ fs' = rmtree(fs, Resolve(cwd, temp_dir(request_id[t])))
            /\ UNCHANGED response
       ELSE /\ response' = [response EXCEPT ![t] = FlaskError]
            /\ UNCHANGED fs
    /\ pc' = [pc EXCEPT ![t] = "done"]
    /\ UNCHANGED <<GOOGLE_API_KEY, cwd, nextId, threads, has_q, request_id,
                   created, original_dir, response_text, code_to_execute,
                   script, result, ret, returned, exc>>

Next ==
    \E t \in Threads :
        \/ ReceiveRequest(t)
        \/ MakeDirs(t)
        \/ SaveFiles(t)
        \/ ReadQuestion(t)
        \/ RunGetcwd(t)
        \/ RunChdir(t)
        \/ GenerateContent(t)
        \/ ExtractCode(t)
        \/ ExecScript(t)
        \/ Validate(t)
        \/ RunFinally(t)
        \/ HandlerRespond(t)
        \/ CleanupExists(t)
        \/ CleanupRmtree(t)

\* requests handled one at a time by one worker
Spec == Init /\ [][Next]_vars

\* requests handled concurrently by the worker threads of one process
SpecConc == InitConc /\ [][Next]_vars

\* ------------------------------------------------- code extraction alone
\* A request that has reached agent.py:99 with any response text of up to
\* MaxText tokens.
InitExtract ==
    /\ GOOGLE_API_KEY = TRUE
    /\ fs = {AppDir, TempDir, TempDir \o <<uuid4(1)>>,
             TempDir \o <<uuid4(1), "questions.txt">>}
    /\ cwd = TempDir \o <<uuid4(1)>>
    /\ nextId = 2
    /\ threads = {1}
    /\ pc = [t \in Threads |-> IF t = 1 THEN "extract" ELSE "idle"]
    /\ has_q = [t \in Threads |-> t = 1]
    /\ request_id = [t \in Threads |-> IF t = 1 THEN uuid4(1) ELSE ""]
    /\ created = [t \in Threads |-> IF t = 1 THEN TempDir \o <<uuid4(1)>> ELSE <<>>]
    /\ original_dir = [t \in Threads |-> IF t = 1 THEN AppDir ELSE <<>>]
    /\ \E text \in SeqsUpTo(TextTokens, MaxText) :
           response_text = [t \in Threads |-> IF t = 1 THEN text ELSE <<>>]
    /\ code_to_execute = [t \in Threads |-> <<>>]
    /\ script = [t \in Threads |-> NoScript]
    /\ result = [t \in Threads |-> NoResult]
    /\ ret = [t \in Threads |-> <<>>]
    /\ returned = [t \in Threads |-> FALSE]
    /\ exc = [t \in Threads |-> NoExc]
    /\ response = [t \in Threads |-> NoResponse]

NextExtract == \E t \in Threads : ExtractCode(t)

SpecExtract == InitExtract /\ [][NextExtract]_vars

\* ----------------------------------------------------------------- claims
\* positions of the handler after Agent.run has been left
AfterRun == {"respond", "exists", "rmtree", "done"}

\* positions of the handler after the response has been built
AfterRespond == {"exists", "rmtree", "done"}

\* everything below the "temp" directory
ScratchPaths == fs \ {AppDir, TempDir}

\* C1: once the handler has finished a request that created a scratch
\* directory, that directory and everything under it no longer exist,
\* whatever the later steps did.
C1_ScratchRemoved ==
    \A t \in Threads :
        (pc[t] = "done" /\ created[t] # <<>>) =>
            \A p \in fs : ~IsPrefix(created[t], p)

\* C1 witness: a request that created its directory, met an upstream
\* timeout and has finished.
C1_Witness ==
    \E t \in Threads :
        /\ pc[t] = "done"
        /\ created[t] # <<>>
        /\ exc[t].kind = "DeadlineExceeded"
        /\ response[t].status = 503

\* C2 as stated: a request without the question file is answered 400 in
\* every server configuration, and no scratch directory exists afterwards.
C2_Original ==
    \A t \in Threads :
        (pc[t] = "done" /\ ~has_q[t]) =>
            /\ response[t].status = 400
            /\ created[t] = <<>>
            /\ ScratchPaths = {}

\* C2 amended: a request without the question file is answered 400 when the
\* API key is configured and 500 when it is not (the credential check comes
\* first); either way no scratch directory is created or left behind.
C2_Amended ==
    \A t \in Threads :
        (pc[t] = "done" /\ ~has_q[t]) =>
            /\ response[t].status = IF GOOGLE_API_KEY THEN 400 ELSE 500
            /\ response[t].keys = {"error"}
            /\ created[t] = <<>>
            /\ ScratchPaths = {}

\* C2 witness: with the key configured, a request without the question
\* file has been answered 400.
C2_Witness ==
    \E t \in Threads :
        /\ pc[t] = "done"
        /\ ~has_q[t]
        /\ GOOGLE_API_KEY
        /\ response[t].status = 400

\* t is s without its leading and trailing whitespace, otherwise unchanged
IsTrimOf(t, s) ==
    /\ t # <<>> => ~IsWs(t[1]) /\ ~IsWs(t[Len(t)])
    /\ \E i \in 0..Len(s), j \in 0..Len(s) :
        /\ i + j <= Len(s)
        /\ t = SubSeq(s, i + 1, Len(s) - j)
        /\ \A k \in 1..i : IsWs(s[k])
        /\ \A k \in (Len(s) - j + 1)..Len(s) : IsWs(s[k])

\* C3: when Agent.run returns normally its value is the captured stdout
\* trimmed and otherwise unchanged, the stderr holds no trace marker, the
\* value is non-empty JSON, and the handler answers 200 with that text
\* parsed as JSON.
C3_ReturnIsTrimmedStdout ==
    \A t \in Threads :
        (pc[t] \in AfterRun /\ returned[t]) =>
            /\ IsTrimOf(ret[t], result[t].stdout)
            /\ ~HasTraceback(result[t].stderr)
            /\ ret[t] # <<>>
            /\ json_loads(ret[t]).ok
            /\ pc[t] \in AfterRespond =>
                /\ response[t].status = 200
                /\ response[t].body = json_loads(ret[t]).val

\* C3 witness: a request answered 200 whose captured stdout had whitespace
\* around the JSON text.
C3_Witness ==
    \E t \in Threads :
        /\ pc[t] = "done"
        /\ returned[t]
        /\ response[t].status = 200
        /\ result[t].stdout # ret[t]
        /\ Len(result[t].stdout) = Len(ret[t]) + 2

\* C4 as stated: a request that passed both entry checks and then failed is
\* answered 503 exactly for DeadlineExceeded and RetryError and 500 for
\* every other failure, with a JSON envelope holding error and details, and
\* never 200.
C4_FailureStatus ==
    \A t \in Threads :
        (pc[t] = "done" /\ request_id[t] # "" /\ ~returned[t]) =>
            /\ response[t].status \in {500, 503}
            /\ response[t].keys = {"error", "details"}
            /\ response[t].status = 503 <=> exc[t].kind \in TimeoutKinds

\* C5: when the captured stderr holds the trace marker, Agent.run fails
\* with the stderr text as detail whatever the captured stdout holds; the
\* check comes before the empty-output check and before JSON parsing.
C5_TraceFirst ==
    \A t \in Threads :
        (pc[t] \in {"run_finally"} \cup AfterRun /\ HasTraceback(result[t].stderr)) =>
            /\ ~returned[t]
            /\ exc[t] = Raise("Exception", "Error during Python script execution",
                              result[t].stderr)
            /\ pc[t] \in AfterRespond =>
                /\ response[t].status = 500
                /\ response[t].details.text = result[t].stderr

\* C5 witness: the script printed valid JSON, raised nothing and wrote the
\* trace marker to stderr; the request has been answered.
C5_Witness ==
    \E t \in Threads :
        /\ pc[t] = "done"
        /\ HasTraceback(result[t].stderr)
        /\ script[t].raises = "none"
        /\ json_loads(strip(result[t].stdout)).ok

\* the line breaks of s that are followed by printed text
LineBreaks(s) == {k \in 1..Len(rstrip(s)) : s[k] = "\n"}

\* the last line the script printed, and the text printed before it
FinalLine(s) ==
    IF LineBreaks(s) = {} THEN rstrip(s)
    ELSE SubSeq(s, Max(LineBreaks(s)) + 1, Len(rstrip(s)))

EarlierText(s) ==
    IF LineBreaks(s) = {} THEN <<>> ELSE SubSeq(s, 1, Max(LineBreaks(s)) - 1)

IsBlank(s) == \A k \in 1..Len(s) : IsWs(s[k])

\* the script ran to a result whose last printed line is a JSON value and
\* whose stderr holds no trace marker
FinalLineIsJson(t) ==
    /\ json_loads(FinalLine(result[t].stdout)).ok
    /\ ~HasTraceback(result[t].stderr)

C7_DisjointAndRemoved ==
    /\ \A t \in Threads, u \in Threads :
        (t # u /\ created[t] # <<>> /\ created[u] # <<>>) =>
            ~IsPrefix(created[t], created[u])
    /\ \A t \in Threads :
        (pc[t] = "done" /\ created[t] # <<>>) => created[t] \notin fs

\* C8: Agent.run changes the working directory to the scratch directory
\* for the call, and on every way out of it the working directory is again
\* the one from before the call.
C8_CwdRestored ==
    \A t \in Threads :
        /\ pc[t] \in {"generate", "extract", "exec"} =>
            /\ cwd = Resolve(original_dir[t], temp_dir(request_id[t]))
            /\ cwd = created[t]
        /\ (pc[t] \in AfterRun /\ original_dir[t] # <<>>) => cwd = original_dir[t]

\* C8 witness: the script changed the directory and left by SystemExit;
\* run has been left and the directory is the original one.
C8_Witness ==
    \E t \in Threads :
        /\ pc[t] = "respond"
        /\ script[t].chdir
        /\ exc[t].kind = "SystemExit"
        /\ cwd = original_dir[t]
        /\ cwd # created[t]

\* C9 as stated: whatever the script raises, execute_python_code catches
\* it, appends the trace to the captured stderr and returns the result; no
\* exception of the script leaves execute_python_code.
C9_NeverPropagates ==
    \A t \in Threads :
        script[t].raises # "none" =>
            /\ result[t] = [stdout |-> script[t].out,
                            stderr |-> script[t].err \o <<"Traceback">>]
            /\ exc[t].kind \notin BaseOnlyKinds

\* the fences of a response pair up into blocks: an even number of fences,
\* and text inside every block after its fence and language tag
WellFenced(text) ==
    /\ Cardinality(Fences(text)) % 2 = 0
    /\ \A i \in Fences(text) :
        Cardinality({j \in Fences(text) : j < i}) % 2 = 0 =>
            /\ text[i + 1] # "FENCE"
            /\ text[i + 1] = "python" => text[i + 2] # "FENCE"

\* the inner text of the first fenced block, without the language tag
FirstBlockInner(text) ==
    LET f == Min(Fences(text))
        g == Min(Fences(text) \ {f})
    IN IF text[f + 1] = "python" THEN SubSeq(text, f + 2, g - 1)
       ELSE SubSeq(text, f + 1, g - 1)

\* C10 as stated: for a response with one or more fenced blocks the script
\* is the inner text of the first block (compared here up to surrounding
\* whitespace); a response without a fence is used whole.
C10_FirstBlock ==
    \A t \in Threads :
        (pc[t] = "exec" /\ WellFenced(response_text[t])) =>
            code_to_execute[t] =
                IF Fences(response_text[t]) = {} THEN strip(response_text[t])
                ELSE strip(FirstBlockInner(response_text[t]))

====
